---- MODULE Spec2Model ----
(***************************************************************************)
(* The transaction engine of the wallet service (WalletService.transfer    *)
(* and its wrappers topUp, grantBonus and spend) over a PostgreSQL store   *)
(* at READ COMMITTED: every call runs in one store transaction, whose      *)
(* writes stay private until COMMIT; advisory locks, row locks and unique  *)
(* indexes make a call wait for the transaction that holds them.           *)
(*                                                                         *)
(* Amounts and balances are counted in thousandths of a unit ("mills"), so *)
(* that an amount with three fractional digits can be told from its value  *)
(* at the store's scale of two: 10 is 0.01, 5 is 0.005.                    *)
(***************************************************************************)
EXTENDS Integers, Sequences, FiniteSets, TLC

\* ------------------------------------------------------------------ bounds

\* Number of calls (requests) of one run.
MaxCalls == 2

\* Provisioned balance of a system wallet, in hundredths (the seed gives
\* 1000000000.00; the model scales it down).
SystemSeedCents == 1

\* Provisioned balance of test user 1's wallets, in hundredths (seed: 1000.00).
User1SeedCents == 1

Calls == 1..MaxCalls

\* --------------------------------------------------------------- decimals

\* decimal.js NaN: what new Decimal("NaN") gives.
NaN == -1000000

\* Mills in one hundredth: the store keeps two fractional digits.
Cent == 10

isNegative(d) == d # NaN /\ d < 0

\* A check that no amount is zero.
isZeroNever(d) == FALSE

isZero(d) == d = 0

lessThan(a, b) == a # NaN /\ b # NaN /\ a < b

minus(a, b) == IF a = NaN \/ b = NaN THEN NaN ELSE a - b

plus(a, b) == IF a = NaN \/ b = NaN THEN NaN ELSE a + b

\* Assignment to a DECIMAL(20,2) / numeric(20,2) column: the value is rounded
\* to two fractional digits, ties away from zero; NaN is stored as NaN.
numeric_20_2(d) ==
    IF d = NaN THEN NaN
    ELSE IF d >= 0 THEN ((d + 5) \div Cent) * Cent
    ELSE -(((-d + 5) \div Cent) * Cent)

\* ----------------------------------------------------------- identifiers

SYSTEM_USER_ID == 0
TEST_USER_1_ID == 1
TEST_USER_3_ID == 3

Users == {SYSTEM_USER_ID, TEST_USER_1_ID, TEST_USER_3_ID}

\* The text of a user id: the UUID made of one digit, as UTF-16 code units
\* ("-" is 45, "0" is 48).
uuid(u) ==
    LET d == 48 + u
        rep(n) == [i \in 1..n |-> d]
    IN rep(8) \o <<45>> \o rep(4) \o <<45>> \o rep(4) \o <<45>> \o rep(4)
         \o <<45>> \o rep(12)

\* asset_types as provisioned.
asset_types ==
    { [id |-> 1, name |-> "Gold Coins", code |-> "GOLD"],
      [id |-> 2, name |-> "Diamonds", code |-> "DIAMOND"],
      [id |-> 3, name |-> "Loyalty Points", code |-> "LOYALTY"] }

NoAsset == [id |-> 0, name |-> "", code |-> ""]

\* SELECT * FROM asset_types WHERE name = identifier OR code = identifier
getAssetType(identifier) ==
    LET found == { a \in asset_types : a.name = identifier \/ a.code = identifier }
    IN IF found = {} THEN NoAsset ELSE CHOOSE a \in found : TRUE

\* Number.prototype.toString of a one-digit asset id.
toString(n) == <<48 + n>>

\* --------------------------------------------------------- lock coordinator

\* Comparison of two strings by UTF-16 code units, as Array.prototype.sort
\* compares them: TRUE when a sorts strictly before b.
RECURSIVE StrLessFrom(_, _, _)
StrLessFrom(a, b, i) ==
    IF i > Len(b) THEN FALSE
    ELSE IF i > Len(a) THEN TRUE
    ELSE IF a[i] # b[i] THEN a[i] < b[i]
    ELSE StrLessFrom(a, b, i + 1)

StrLess(a, b) == StrLessFrom(a, b, 1)

\* [x, y].sort()
Sort2(x, y) == IF StrLess(y, x) THEN <<y, x>> ELSE <<x, y>>

\* parts.sort() for the three parts of a lock key.
Sort3(parts) ==
    LET p12 == Sort2(parts[1], parts[2])
        lo == p12[1]
        hi == p12[2]
        z == parts[3]
    IN IF StrLess(z, lo) THEN <<z, lo, hi>>
       ELSE IF StrLess(z, hi) THEN <<lo, z, hi>>
       ELSE <<lo, hi, z>>

\* parts.join("-")
Join3(parts) == parts[1] \o <<45>> \o parts[2] \o <<45>> \o parts[3]

\* A 64-bit value as four 16-bit limbs, least significant first.
Limb == 65536

\* hash = (hash << 5n) - hash + BigInt(ch), kept modulo 2^64.
HashStep(h, ch) ==
    LET t1 == 31 * h[1] + ch
        t2 == 31 * h[2] + (t1 \div Limb)
        t3 == 31 * h[3] + (t2 \div Limb)
        t4 == 31 * h[4] + (t3 \div Limb)
    IN <<t1 % Limb, t2 % Limb, t3 % Limb, t4 % Limb>>

\* The loop "for (let i = 0; i < str.length; i++)" from character i on, with
\* hash h so far.  The limbs of the new hash are natural numbers, so the test
\* on next[1] always succeeds: it makes the hash a value at every iteration.
RECURSIVE HashFrom(_, _, _)
HashFrom(h, str, i) ==
    IF i > Len(str) THEN h
    ELSE LET next == HashStep(h, str[i])
         IN IF next[1] >= 0 THEN HashFrom(next, str, i + 1) ELSE next

\* The key of the parts as they come, without parts.sort().
generateLockKeyUnsorted(parts) ==
    LET str == Join3(parts)
    IN HashFrom(<<0, 0, 0, 0>>, str, 1)

\* generateLockKey(...parts): BigInt.asIntN(64, hash), as its 64 bits.
generateLockKey(parts) ==
    LET str == Join3(Sort3(parts))
    IN HashFrom(<<0, 0, 0, 0>>, str, 1)

\* The key of every (from, to, asset) of the model, computed once.
LockKeys ==
    [f \in Users, t \in Users, a \in 1..3 |->
        generateLockKey(<<uuid(f), uuid(t), toString(a)>>)]

\* The two user ids left as they come, source first.
SortedUserIdsUnsorted == [f \in Users, t \in Users |-> <<f, t>>]

\* const sortedUserIds = [fromUserId, toUserId].sort()
SortedUserIds ==
    [f \in Users, t \in Users |->
        IF StrLess(uuid(t), uuid(f)) THEN <<t, f>> ELSE <<f, t>>]

sortedUserIds(fromUserId, toUserId) == SortedUserIds[fromUserId, toUserId]


\* ------------------------------------------------------------------ inputs

\* The requests of the workload on the first asset: the amounts "0.005", "0.01"
\* and "NaN" of a top-up or a spend, the amount "0.01" of a bonus.
AssetCodes == {"GOLD"}

Amounts == {5, 10, NaN}

BonusAmounts == {10}

\* The requests on a second asset: amounts of "0.01" for test user 1.
SecondAssetCodes == {"DIAMOND"}

SecondAssetUsers == {TEST_USER_1_ID}

SecondAssetAmounts == {10}

\* The requests with an argument the validation may reject: the amounts "0",
\* "-0.01" and "0.01" with a known and an unknown asset code, for test user 1.
UncheckedAssetCodes == {"GOLD", "INVALID"}

UncheckedAmounts == {0, -10, 10}

IdempotencyKeys == {"k1", "k2"}

NoArgs ==
    [op |-> "", userId |-> 0, assetCode |-> "", amount |-> 0, idempotencyKey |-> ""]

\* ------------------------------------------------------------------- state

VARIABLES
    wallets,            \* committed rows of wallets
    transactions,       \* committed rows of transactions
    ledger_entries,     \* committed rows of ledger_entries
    wallets_id_seq,     \* BIGSERIAL of wallets.id: the last value given out
    ledger_id_seq,      \* BIGSERIAL of ledger_entries.id: the last value given out
    pc,                 \* where each call stands
    args,               \* the arguments of each call
    result,             \* what each call returned or threw
    advisory,           \* the calls that hold their advisory lock
    rowLocks,           \* per call, the ids of the wallet rows it has locked
    lockedWallets,      \* per call, the rows SELECT ... FOR UPDATE returned
    txWallets,          \* per call, the wallet rows its transaction wrote
    txTransactions,     \* per call, the transactions rows its transaction wrote
    txLedger,           \* per call, the ledger rows its transaction wrote
    cache,              \* redis: the value under each balance key, or NULL
    reader,             \* the getBalance call in progress, or the last one
    limiter             \* redis: the counter of one client, and its requests

store == <<wallets, transactions, ledger_entries>>

vars == <<wallets, transactions, ledger_entries, wallets_id_seq, ledger_id_seq,
          pc, args, result, advisory, rowLocks, lockedWallets, txWallets,
          txTransactions, txLedger, cache, reader, limiter>>

\* The value of a column that was given none.
NULL == -1

NoTransaction ==
    [id |-> 0, idempotency_key |-> "", transaction_type |-> "", user_id |-> 0,
     asset_type_id |-> 0, amount |-> 0, status |-> "", created_at |-> 0,
     processed_at |-> NULL]

NoResult == [outcome |-> "", transaction |-> NoTransaction]

\* The keys "balance:<userId>:<assetTypeId>" of redis.
CacheKeys == Users \X (1..3)

cacheKey(userId, asset) == <<userId, asset>>

\* No getBalance has been called. A call of getBalance has its place (pc), its
\* arguments, the value it has read (cached, then balance), the number of
\* calls made so far (reads) and whether every transfer had ended when it
\* began (quiet).
NoReader ==
    [pc |-> "idle", userId |-> 0, assetTypeId |-> 0, value |-> NULL, reads |-> 0,
     quiet |-> FALSE]

\* The requests of one client (one x-forwarded-for) to one limiter, and the
\* max of its configuration.
MaxRequests == 3

max == 2

\* No request has arrived: the key of the client does not exist (current is
\* NULL, no expiry is set), no window has elapsed.
NoRequests ==
    [current |-> NULL, pexpire |-> FALSE, elapsed |-> 0,
     requests |-> [q \in 1..MaxRequests |-> [pc |-> "idle", count |-> 0]]]

\* seed: a system wallet and a wallet of test user 1 for every asset type.
SeedWallets ==
    { [id |-> a.id, user_id |-> SYSTEM_USER_ID, asset_type_id |-> a.id,
       balance |-> SystemSeedCents * Cent, version |-> 1] : a \in asset_types }
    \cup
    { [id |-> 3 + a.id, user_id |-> TEST_USER_1_ID, asset_type_id |-> a.id,
       balance |-> User1SeedCents * Cent, version |-> 1] : a \in asset_types }

\* The state after provisioning, with rows the transactions relation holds.
InitWith(rows) ==
    /\ wallets = SeedWallets
    /\ transactions = rows
    /\ ledger_entries = {}
    /\ wallets_id_seq = 6
    /\ ledger_id_seq = 0
    /\ pc = [c \in Calls |-> "idle"]
    /\ args = [c \in Calls |-> NoArgs]
    /\ result = [c \in Calls |-> NoResult]
    /\ advisory = [c \in Calls |-> FALSE]
    /\ rowLocks = [c \in Calls |-> {}]
    /\ lockedWallets = [c \in Calls |-> {}]
    /\ txWallets = [c \in Calls |-> {}]
    /\ txTransactions = [c \in Calls |-> {}]
    /\ txLedger = [c \in Calls |-> {}]
    /\ cache = [k \in CacheKeys |-> NULL]
    /\ reader = NoReader
    /\ limiter = NoRequests

Init == InitWith({})

\* A row of transactions inserted by hand with a status the engine never
\* commits, as the test of the gate inserts one: a TOP_UP of test user 1 on
\* the first asset under key "k1".
StoredTransactions ==
    { [id |-> MaxCalls + 1, idempotency_key |-> "k1", transaction_type |-> "TOP_UP",
       user_id |-> TEST_USER_1_ID, asset_type_id |-> 1, amount |-> Cent,
       status |-> status, created_at |-> 0, processed_at |-> NULL] : status \in {"PENDING", "FAILED"} }

InitStored == \E t \in StoredTransactions : InitWith({t})

\* ------------------------------------------------- the arguments of transfer

\* topUp and grantBonus move from the system to the user, spend the other way.
fromUserId(c) ==
    IF args[c].op = "spend" THEN args[c].userId ELSE SYSTEM_USER_ID

toUserId(c) ==
    IF args[c].op = "spend" THEN SYSTEM_USER_ID ELSE args[c].userId

transactionType(c) ==
    IF args[c].op = "topUp" THEN "TOP_UP"
    ELSE IF args[c].op = "grantBonus" THEN "BONUS" ELSE "SPEND"

ownerId(c) == args[c].userId

assetTypeId(c) == getAssetType(args[c].assetCode).id

\* new Decimal(amount)
amountDecimal(c) == args[c].amount

idempotencyKey(c) == args[c].idempotencyKey

advisoryLockKey(c) == LockKeys[fromUserId(c), toUserId(c), assetTypeId(c)]

\* NOW() in the transaction of call c: the time at which it began.
NOW(c) == c

\* ------------------------------------------------------ the store's views

\* The wallet rows the transaction of c sees: the committed rows, with its own
\* writes in place of the rows they replace.
WalletsSeenBy(c) ==
    { w \in wallets : \A x \in txWallets[c] : x.id # w.id } \cup txWallets[c]

\* The rows of (uid, asset) among rows.
WalletRows(rows, uid, asset) ==
    { w \in rows : w.user_id = uid /\ w.asset_type_id = asset }

\* ------------------------------------------------- the end of a transaction

\* ROLLBACK after a session-level pg_advisory_lock: the advisory lock outlives
\* the transaction.
RollbackSessionLock(c, error) ==
    /\ pc' = [pc EXCEPT ![c] = "done"]
    /\ result' = [result EXCEPT ![c] = [outcome |-> error, transaction |-> NoTransaction]]
    /\ advisory' = advisory
    /\ rowLocks' = [rowLocks EXCEPT ![c] = {}]
    /\ lockedWallets' = [lockedWallets EXCEPT ![c] = {}]
    /\ txWallets' = [txWallets EXCEPT ![c] = {}]
    /\ txTransactions' = [txTransactions EXCEPT ![c] = {}]
    /\ txLedger' = [txLedger EXCEPT ![c] = {}]
    /\ UNCHANGED <<wallets, transactions, ledger_entries>>

\* The callback threw: ROLLBACK discards the writes and releases every lock.
Rollback(c, error) ==
    /\ pc' = [pc EXCEPT ![c] = "done"]
    /\ result' = [result EXCEPT ![c] = [outcome |-> error, transaction |-> NoTransaction]]
    /\ advisory' = [advisory EXCEPT ![c] = FALSE]
    /\ rowLocks' = [rowLocks EXCEPT ![c] = {}]
    /\ lockedWallets' = [lockedWallets EXCEPT ![c] = {}]
    /\ txWallets' = [txWallets EXCEPT ![c] = {}]
    /\ txTransactions' = [txTransactions EXCEPT ![c] = {}]
    /\ txLedger' = [txLedger EXCEPT ![c] = {}]
    /\ UNCHANGED <<wallets, transactions, ledger_entries>>

\* COMMIT that keeps only the latest ledger entries of each wallet.
CommitReturningReplaces(c, row) ==
    /\ wallets' = WalletsSeenBy(c)
    /\ transactions' = transactions \cup txTransactions[c]
    /\ ledger_entries' =
          { e \in ledger_entries : \A x \in txLedger[c] : x.wallet_id # e.wallet_id }
             \cup txLedger[c]
    /\ pc' = [pc EXCEPT ![c] = "done"]
    /\ result' = [result EXCEPT ![c] = [outcome |-> "returned", transaction |-> row]]
    /\ advisory' = [advisory EXCEPT ![c] = FALSE]
    /\ rowLocks' = [rowLocks EXCEPT ![c] = {}]
    /\ lockedWallets' = [lockedWallets EXCEPT ![c] = {}]
    /\ txWallets' = [txWallets EXCEPT ![c] = {}]
    /\ txTransactions' = [txTransactions EXCEPT ![c] = {}]
    /\ txLedger' = [txLedger EXCEPT ![c] = {}]

\* The callback returned row: COMMIT publishes the writes and releases every lock.
CommitReturning(c, row) ==
    /\ wallets' = WalletsSeenBy(c)
    /\ transactions' = transactions \cup txTransactions[c]
    /\ ledger_entries' = ledger_entries \cup txLedger[c]
    /\ pc' = [pc EXCEPT ![c] = "done"]
    /\ result' = [result EXCEPT ![c] = [outcome |-> "returned", transaction |-> row]]
    /\ advisory' = [advisory EXCEPT ![c] = FALSE]
    /\ rowLocks' = [rowLocks EXCEPT ![c] = {}]
    /\ lockedWallets' = [lockedWallets EXCEPT ![c] = {}]
    /\ txWallets' = [txWallets EXCEPT ![c] = {}]
    /\ txTransactions' = [txTransactions EXCEPT ![c] = {}]
    /\ txLedger' = [txLedger EXCEPT ![c] = {}]


\* ------------------------------------------------------------ the wrappers

\* The start of a call: the asset lookup of the wrapper, the amount check of
\* transfer and, for an accepted call, sql.begin with its two SET LOCAL. The
\* transactions begin in the order of the calls, so NOW(), the time at which
\* the transaction of call c began, is c.
Enter(c, op, userId, assetCode, amount, key) ==
    /\ pc[c] = "idle"
    /\ \A d \in Calls : d < c => pc[d] # "idle"
    /\ args' = [args EXCEPT ![c] =
                  [op |-> op, userId |-> userId, assetCode |-> assetCode,
                   amount |-> amount, idempotencyKey |-> key]]
    /\ IF getAssetType(assetCode) = NoAsset
       THEN /\ pc' = [pc EXCEPT ![c] = "done"]
            /\ result' = [result EXCEPT ![c] =
                            [outcome |-> "Invalid asset code", transaction |-> NoTransaction]]
       ELSE IF isNegative(amount) \/ isZero(amount)
       THEN /\ pc' = [pc EXCEPT ![c] = "done"]
            /\ result' = [result EXCEPT ![c] =
                            [outcome |-> "Amount must be positive", transaction |-> NoTransaction]]
       ELSE /\ pc' = [pc EXCEPT ![c] = "advisory"]
            /\ UNCHANGED result
    /\ UNCHANGED <<wallets, transactions, ledger_entries, wallets_id_seq, ledger_id_seq,
                   advisory, rowLocks, lockedWallets, txWallets, txTransactions, txLedger>>
    /\ UNCHANGED <<cache, reader, limiter>>

\* The requests <<userId, assetCode, amount, idempotencyKey>> of the workload,
\* with amounts the amounts on the first asset.
Requests(amounts) ==
    (Users \X AssetCodes \X amounts \X IdempotencyKeys)
    \cup (SecondAssetUsers \X SecondAssetCodes \X SecondAssetAmounts \X IdempotencyKeys)
    \cup ({TEST_USER_1_ID} \X UncheckedAssetCodes \X UncheckedAmounts \X {"k1"})

topUp(c) ==
    \E r \in Requests(Amounts) : Enter(c, "topUp", r[1], r[2], r[3], r[4])

grantBonus(c) ==
    \E r \in Requests(BonusAmounts) : Enter(c, "grantBonus", r[1], r[2], r[3], r[4])

spend(c) ==
    \E r \in Requests(Amounts) : Enter(c, "spend", r[1], r[2], r[3], r[4])

\* ---------------------------------------------------------------- transfer

\* The advisory lock taken without a wait for its holder.
AdvisoryLockNoWait(c) ==
    /\ pc[c] = "advisory"
    /\ advisory' = [advisory EXCEPT ![c] = TRUE]
    /\ pc' = [pc EXCEPT ![c] = "gate"]
    /\ UNCHANGED <<wallets, transactions, ledger_entries, wallets_id_seq, ledger_id_seq,
                   args, result, rowLocks, lockedWallets, txWallets, txTransactions,
                   txLedger>>
    /\ UNCHANGED <<cache, reader, limiter>>

\* 2. pg_advisory_xact_lock: the call waits while another transaction holds a
\* lock of the same key.
AdvisoryLock(c) ==
    /\ pc[c] = "advisory"
    /\ \A d \in Calls \ {c} : advisory[d] => advisoryLockKey(d) # advisoryLockKey(c)
    /\ advisory' = [advisory EXCEPT ![c] = TRUE]
    /\ pc' = [pc EXCEPT ![c] = "gate"]
    /\ UNCHANGED <<wallets, transactions, ledger_entries, wallets_id_seq, ledger_id_seq,
                   args, result, rowLocks, lockedWallets, txWallets, txTransactions,
                   txLedger>>
    /\ UNCHANGED <<cache, reader, limiter>>

\* The gate with the stored row ignored: the transfer always goes on.
IdempotencyCheckIgnoresStored(c) ==
    /\ pc[c] = "gate"
    /\ pc' = [pc EXCEPT ![c] = "ensure1"]
    /\ UNCHANGED <<wallets, transactions, ledger_entries, wallets_id_seq, ledger_id_seq,
                   args, result, advisory, rowLocks, lockedWallets, txWallets,
                   txTransactions, txLedger>>
    /\ UNCHANGED <<cache, reader, limiter>>

\* The gate without the test of the status: any stored row is returned.
IdempotencyCheckAnyStatus(c) ==
    /\ pc[c] = "gate"
    /\ LET existingTx == { t \in transactions : t.idempotency_key = idempotencyKey(c) }
       IN IF existingTx # {}
          THEN CommitReturning(c, CHOOSE t \in existingTx : TRUE)
          ELSE /\ pc' = [pc EXCEPT ![c] = "ensure1"]
               /\ UNCHANGED <<wallets, transactions, ledger_entries, result, advisory,
                              rowLocks, lockedWallets, txWallets, txTransactions,
                              txLedger>>
    /\ UNCHANGED <<wallets_id_seq, ledger_id_seq, args>>
    /\ UNCHANGED <<cache, reader, limiter>>

\* The gate that returns the stored row only to a call of the same user, asset
\* and kind, and throws IdempotencyError otherwise.
IdempotencyCheckComparesArguments(c) ==
    /\ pc[c] = "gate"
    /\ LET existingTx == { t \in transactions : t.idempotency_key = idempotencyKey(c) }
       IN IF existingTx # {}
          THEN LET existing == CHOOSE t \in existingTx : TRUE
               IN IF /\ existing.status = "COMPLETED"
                     /\ existing.user_id = ownerId(c)
                     /\ existing.asset_type_id = assetTypeId(c)
                     /\ existing.transaction_type = transactionType(c)
                  THEN CommitReturning(c, existing)
                  ELSE Rollback(c, "IdempotencyError")
          ELSE /\ pc' = [pc EXCEPT ![c] = "ensure1"]
               /\ UNCHANGED <<wallets, transactions, ledger_entries, result, advisory,
                              rowLocks, lockedWallets, txWallets, txTransactions,
                              txLedger>>
    /\ UNCHANGED <<wallets_id_seq, ledger_id_seq, args>>
    /\ UNCHANGED <<cache, reader, limiter>>

\* 3. SELECT * FROM transactions WHERE idempotency_key = key, and what follows
\* from it: the stored row is returned, or IdempotencyError is thrown, or the
\* transfer goes on.
IdempotencyCheck(c) ==
    /\ pc[c] = "gate"
    /\ LET existingTx == { t \in transactions : t.idempotency_key = idempotencyKey(c) }
       IN IF existingTx # {}
          THEN LET existing == CHOOSE t \in existingTx : TRUE
               IN IF existing.status = "COMPLETED"
                  THEN CommitReturning(c, existing)
                  ELSE Rollback(c, "IdempotencyError")
          ELSE /\ pc' = [pc EXCEPT ![c] = "ensure1"]
               /\ UNCHANGED <<wallets, transactions, ledger_entries, result, advisory,
                              rowLocks, lockedWallets, txWallets, txTransactions,
                              txLedger>>
    /\ UNCHANGED <<wallets_id_seq, ledger_id_seq, args>>
    /\ UNCHANGED <<cache, reader, limiter>>

\* The INSERT of auto-onboarding run outside the transaction of the call: the
\* row is committed at once.
EnsureWalletAutocommit(c) ==
    \E i \in 1..2 :
        /\ pc[c] = (IF i = 1 THEN "ensure1" ELSE "ensure2")
        /\ LET uid == sortedUserIds(fromUserId(c), toUserId(c))[i]
               asset == assetTypeId(c)
           IN IF WalletRows(wallets, uid, asset) # {}
              THEN UNCHANGED <<wallets, wallets_id_seq>>
              ELSE /\ wallets_id_seq' = wallets_id_seq + 1
                   /\ wallets' = wallets \cup
                         { [id |-> wallets_id_seq + 1, user_id |-> uid,
                            asset_type_id |-> asset, balance |-> 0, version |-> 1] }
        /\ pc' = [pc EXCEPT ![c] = IF i = 1 THEN "ensure2" ELSE "lock1"]
        /\ UNCHANGED <<transactions, ledger_entries, ledger_id_seq, args, result,
                       advisory, rowLocks, lockedWallets, txWallets, txTransactions,
                       txLedger>>
        /\ UNCHANGED <<cache, reader, limiter>>

\* The INSERT of auto-onboarding with ON CONFLICT DO UPDATE SET balance = 0: a
\* wallet that exists is reset.
EnsureWalletResets(c) ==
    \E i \in 1..2 :
        /\ pc[c] = (IF i = 1 THEN "ensure1" ELSE "ensure2")
        /\ LET uid == sortedUserIds(fromUserId(c), toUserId(c))[i]
               asset == assetTypeId(c)
               found == WalletRows(WalletsSeenBy(c), uid, asset)
           IN /\ \A d \in Calls \ {c} : \A w \in WalletRows(txWallets[d], uid, asset) :
                    \E x \in wallets : x.id = w.id
              /\ IF found # {}
                 THEN /\ txWallets' = [txWallets EXCEPT ![c] =
                            { w \in @ : w \notin found } \cup
                            { [w EXCEPT !.balance = 0] : w \in found }]
                      /\ UNCHANGED wallets_id_seq
                 ELSE /\ wallets_id_seq' = wallets_id_seq + 1
                      /\ txWallets' = [txWallets EXCEPT ![c] = @ \cup
                            { [id |-> wallets_id_seq + 1, user_id |-> uid,
                               asset_type_id |-> asset, balance |-> 0, version |-> 1] }]
        /\ pc' = [pc EXCEPT ![c] = IF i = 1 THEN "ensure2" ELSE "lock1"]
        /\ UNCHANGED <<wallets, transactions, ledger_entries, ledger_id_seq, args, result,
                       advisory, rowLocks, lockedWallets, txTransactions, txLedger>>
        /\ UNCHANGED <<cache, reader, limiter>>

\* 3 (auto-onboarding). INSERT INTO wallets ... ON CONFLICT DO NOTHING for the
\* i-th of the sorted user ids. The insert waits while another open
\* transaction has inserted a row of the same (user, asset).
EnsureWallet(c) ==
    \E i \in 1..2 :
        /\ pc[c] = (IF i = 1 THEN "ensure1" ELSE "ensure2")
        /\ LET uid == sortedUserIds(fromUserId(c), toUserId(c))[i]
               asset == assetTypeId(c)
           IN /\ \A d \in Calls \ {c} : \A w \in WalletRows(txWallets[d], uid, asset) :
                    \E x \in wallets : x.id = w.id
              /\ IF WalletRows(WalletsSeenBy(c), uid, asset) # {}
                 THEN UNCHANGED <<txWallets, wallets_id_seq>>
                 ELSE /\ wallets_id_seq' = wallets_id_seq + 1
                      /\ txWallets' = [txWallets EXCEPT ![c] = @ \cup
                            { [id |-> wallets_id_seq + 1, user_id |-> uid,
                               asset_type_id |-> asset, balance |-> 0, version |-> 1] }]
        /\ pc' = [pc EXCEPT ![c] = IF i = 1 THEN "ensure2" ELSE "lock1"]
        /\ UNCHANGED <<wallets, transactions, ledger_entries, ledger_id_seq, args, result,
                       advisory, rowLocks, lockedWallets, txTransactions, txLedger>>
        /\ UNCHANGED <<cache, reader, limiter>>


\* 4. SELECT * FROM wallets WHERE user_id IN sortedUserIds AND asset_type_id =
\* asset ORDER BY user_id ASC FOR UPDATE: the rows are locked one after the
\* other in ascending user id, each after a wait for the transaction that holds
\* it, and each is read as it stands once locked.
LockWalletRow(c) ==
    \E i \in 1..2 :
        /\ pc[c] = (IF i = 1 THEN "lock1" ELSE "lock2")
        /\ LET sorted == sortedUserIds(fromUserId(c), toUserId(c))
               w == CHOOSE x \in WalletRows(WalletsSeenBy(c), sorted[i], assetTypeId(c)) : TRUE
           IN /\ \A d \in Calls \ {c} : w.id \notin rowLocks[d]
              /\ rowLocks' = [rowLocks EXCEPT ![c] = @ \cup {w.id}]
              /\ lockedWallets' = [lockedWallets EXCEPT ![c] = @ \cup {w}]
              /\ pc' = [pc EXCEPT ![c] =
                          IF i = 1 /\ sorted[1] # sorted[2] THEN "lock2" ELSE "check"]
        /\ UNCHANGED <<wallets, transactions, ledger_entries, wallets_id_seq, ledger_id_seq,
                       args, result, advisory, txWallets, txTransactions, txLedger>>
        /\ UNCHANGED <<cache, reader, limiter>>

\* wallets.find((w) => w.user_id === fromUserId) and (... === toUserId)
sourceWallet(c) == CHOOSE w \in lockedWallets[c] : w.user_id = fromUserId(c)

destWallet(c) == CHOOSE w \in lockedWallets[c] : w.user_id = toUserId(c)

sourceBalance(c) == sourceWallet(c).balance

\* sourceBalance.lessThan(amountDecimal)
InsufficientFunds(balance, amount) == lessThan(balance, amount)

\* 5. The balance check.
CheckBalance(c) ==
    /\ pc[c] = "check"
    /\ IF InsufficientFunds(sourceBalance(c), amountDecimal(c))
       THEN Rollback(c, "InsufficientFundsError")
       ELSE /\ pc' = [pc EXCEPT ![c] = "insert"]
            /\ UNCHANGED <<wallets, transactions, ledger_entries, result, advisory,
                           rowLocks, lockedWallets, txWallets, txTransactions, txLedger>>
    /\ UNCHANGED <<wallets_id_seq, ledger_id_seq, args>>
    /\ UNCHANGED <<cache, reader, limiter>>

\* The INSERT into a transactions table that has no unique index on
\* idempotency_key.
InsertTransactionNoUnique(c) ==
    /\ pc[c] = "insert"
    /\ txTransactions' = [txTransactions EXCEPT ![c] =
          { [id |-> c, idempotency_key |-> idempotencyKey(c),
             transaction_type |-> transactionType(c), user_id |-> ownerId(c),
             asset_type_id |-> assetTypeId(c),
             amount |-> numeric_20_2(amountDecimal(c)), status |-> "PENDING",
             created_at |-> NOW(c), processed_at |-> NULL] }]
    /\ pc' = [pc EXCEPT ![c] = "update_source"]
    /\ UNCHANGED <<wallets, transactions, ledger_entries, result, advisory,
                   rowLocks, lockedWallets, txWallets, txLedger>>
    /\ UNCHANGED <<wallets_id_seq, ledger_id_seq, args>>
    /\ UNCHANGED <<cache, reader, limiter>>

\* 5 (second). INSERT INTO transactions ... 'PENDING' RETURNING id. The unique
\* index on idempotency_key makes the insert wait for an open transaction that
\* has inserted the key, and fail when a committed row has it.
InsertTransaction(c) ==
    /\ pc[c] = "insert"
    /\ \A d \in Calls \ {c} : \A t \in txTransactions[d] :
          t.idempotency_key # idempotencyKey(c)
    /\ IF \E t \in transactions : t.idempotency_key = idempotencyKey(c)
       THEN Rollback(c, "duplicate key value violates unique constraint")
       ELSE /\ txTransactions' = [txTransactions EXCEPT ![c] =
                  { [id |-> c, idempotency_key |-> idempotencyKey(c),
                     transaction_type |-> transactionType(c), user_id |-> ownerId(c),
                     asset_type_id |-> assetTypeId(c),
                     amount |-> numeric_20_2(amountDecimal(c)), status |-> "PENDING",
                     created_at |-> NOW(c), processed_at |-> NULL] }]
            /\ pc' = [pc EXCEPT ![c] = "update_source"]
            /\ UNCHANGED <<wallets, transactions, ledger_entries, result, advisory,
                           rowLocks, lockedWallets, txWallets, txLedger>>
    /\ UNCHANGED <<wallets_id_seq, ledger_id_seq, args>>
    /\ UNCHANGED <<cache, reader, limiter>>

\* The row the transaction inserted: const [transaction] = ...
transaction(c) == CHOOSE t \in txTransactions[c] : TRUE

newSourceBalance(c) == minus(sourceBalance(c), amountDecimal(c))

newDestBalance(c) == plus(destWallet(c).balance, amountDecimal(c))

\* UPDATE wallets SET balance = value, version = version + 1 WHERE id = id,
\* on the rows the transaction sees.
UpdateWallet(c, id, value) ==
    LET old == CHOOSE w \in WalletsSeenBy(c) : w.id = id
    IN txWallets' = [txWallets EXCEPT ![c] =
          { w \in @ : w.id # id } \cup
          { [old EXCEPT !.balance = numeric_20_2(value), !.version = old.version + 1] }]

\* INSERT INTO ledger_entries (transaction_id, wallet_id, entry_type, amount,
\* balance_after)
InsertLedgerEntry(c, wallet_id, entry_type, balance_after) ==
    /\ ledger_id_seq' = ledger_id_seq + 1
    /\ txLedger' = [txLedger EXCEPT ![c] = @ \cup
          { [id |-> ledger_id_seq + 1, transaction_id |-> transaction(c).id,
             wallet_id |-> wallet_id, entry_type |-> entry_type,
             amount |-> numeric_20_2(amountDecimal(c)),
             balance_after |-> numeric_20_2(balance_after),
             created_at |-> NOW(c)] }]

\* 6. The source wallet is set to its new balance.
UpdateSource(c) ==
    /\ pc[c] = "update_source"
    /\ UpdateWallet(c, sourceWallet(c).id, newSourceBalance(c))
    /\ pc' = [pc EXCEPT ![c] = "debit"]
    /\ UNCHANGED <<wallets, transactions, ledger_entries, wallets_id_seq, ledger_id_seq,
                   args, result, advisory, rowLocks, lockedWallets, txTransactions,
                   txLedger>>
    /\ UNCHANGED <<cache, reader, limiter>>

\* 6. The DEBIT entry of the source wallet.
InsertDebit(c) ==
    /\ pc[c] = "debit"
    /\ InsertLedgerEntry(c, sourceWallet(c).id, "DEBIT", newSourceBalance(c))
    /\ pc' = [pc EXCEPT ![c] = "update_dest"]
    /\ UNCHANGED <<wallets, transactions, ledger_entries, wallets_id_seq, args, result,
                   advisory, rowLocks, lockedWallets, txWallets, txTransactions>>
    /\ UNCHANGED <<cache, reader, limiter>>

\* 6. The destination wallet is set to its new balance.
UpdateDest(c) ==
    /\ pc[c] = "update_dest"
    /\ UpdateWallet(c, destWallet(c).id, newDestBalance(c))
    /\ pc' = [pc EXCEPT ![c] = "credit"]
    /\ UNCHANGED <<wallets, transactions, ledger_entries, wallets_id_seq, ledger_id_seq,
                   args, result, advisory, rowLocks, lockedWallets, txTransactions,
                   txLedger>>
    /\ UNCHANGED <<cache, reader, limiter>>

\* The CREDIT entry left out.
InsertCreditSkipped(c) ==
    /\ pc[c] = "credit"
    /\ pc' = [pc EXCEPT ![c] = "complete"]
    /\ UNCHANGED <<wallets, transactions, ledger_entries, wallets_id_seq, ledger_id_seq,
                   args, result, advisory, rowLocks, lockedWallets, txWallets,
                   txTransactions, txLedger>>
    /\ UNCHANGED <<cache, reader, limiter>>

\* 6. The CREDIT entry of the destination wallet.
InsertCredit(c) ==
    /\ pc[c] = "credit"
    /\ InsertLedgerEntry(c, destWallet(c).id, "CREDIT", newDestBalance(c))
    /\ pc' = [pc EXCEPT ![c] = "complete"]
    /\ UNCHANGED <<wallets, transactions, ledger_entries, wallets_id_seq, args, result,
                   advisory, rowLocks, lockedWallets, txWallets, txTransactions>>
    /\ UNCHANGED <<cache, reader, limiter>>

\* The transfer without its UPDATE of the status: the row stays PENDING.
CompleteTransactionSkipped(c) ==
    /\ pc[c] = "complete"
    /\ pc' = [pc EXCEPT ![c] = "invalidate"]
    /\ UNCHANGED <<wallets, transactions, ledger_entries, wallets_id_seq, ledger_id_seq,
                   args, result, advisory, rowLocks, lockedWallets, txWallets,
                   txTransactions, txLedger>>
    /\ UNCHANGED <<cache, reader, limiter>>

\* 7. UPDATE transactions SET status = 'COMPLETED' WHERE id = id RETURNING *
CompleteTransaction(c) ==
    /\ pc[c] = "complete"
    /\ txTransactions' = [txTransactions EXCEPT ![c] =
          { [t EXCEPT !.status = "COMPLETED"] : t \in @ }]
    /\ pc' = [pc EXCEPT ![c] = "invalidate"]
    /\ UNCHANGED <<wallets, transactions, ledger_entries, wallets_id_seq, ledger_id_seq,
                   args, result, advisory, rowLocks, lockedWallets, txWallets, txLedger>>
    /\ UNCHANGED <<cache, reader, limiter>>

\* 8. redis.del of the balance key of the source and of the destination,
\* inside the callback of sql.begin: before COMMIT.
InvalidateCaches(c) ==
    /\ pc[c] = "invalidate"
    /\ cache' = [k \in CacheKeys |->
                    IF k \in {cacheKey(fromUserId(c), assetTypeId(c)),
                              cacheKey(toUserId(c), assetTypeId(c))}
                    THEN NULL ELSE cache[k]]
    /\ pc' = [pc EXCEPT ![c] = "commit"]
    /\ UNCHANGED <<wallets, transactions, ledger_entries, wallets_id_seq, ledger_id_seq,
                   args, result, advisory, rowLocks, lockedWallets, txWallets,
                   txTransactions, txLedger, reader, limiter>>

\* return finalTransaction: the callback of sql.begin returns and the store
\* transaction commits.
Commit(c) ==
    /\ pc[c] = "commit"
    /\ CommitReturning(c, transaction(c))
    /\ UNCHANGED <<wallets_id_seq, ledger_id_seq, args>>
    /\ UNCHANGED <<cache, reader, limiter>>

\* A statement of the open transaction throws for a reason of its time or
\* place: lock_timeout on a wait, statement_timeout, a lost connection, or
\* redis.del at the cache invalidation. sql.begin answers the throw with
\* ROLLBACK and hands the error to the caller.
StatementTimeout == "canceling statement due to statement timeout"

\* The abort with the writes of the call kept, as if its statements had run
\* outside the transaction.
AbortKeepsWrites(c) ==
    /\ pc[c] \notin {"idle", "done"}
    /\ wallets' = WalletsSeenBy(c)
    /\ transactions' = transactions \cup txTransactions[c]
    /\ ledger_entries' = ledger_entries \cup txLedger[c]
    /\ pc' = [pc EXCEPT ![c] = "done"]
    /\ result' = [result EXCEPT ![c] =
                    [outcome |-> StatementTimeout, transaction |-> NoTransaction]]
    /\ advisory' = [advisory EXCEPT ![c] = FALSE]
    /\ rowLocks' = [rowLocks EXCEPT ![c] = {}]
    /\ lockedWallets' = [lockedWallets EXCEPT ![c] = {}]
    /\ txWallets' = [txWallets EXCEPT ![c] = {}]
    /\ txTransactions' = [txTransactions EXCEPT ![c] = {}]
    /\ txLedger' = [txLedger EXCEPT ![c] = {}]
    /\ UNCHANGED <<wallets_id_seq, ledger_id_seq, args>>
    /\ UNCHANGED <<cache, reader, limiter>>

Abort(c) ==
    /\ pc[c] \notin {"idle", "done"}
    /\ Rollback(c, StatementTimeout)
    /\ UNCHANGED <<wallets_id_seq, ledger_id_seq, args>>
    /\ UNCHANGED <<cache, reader, limiter>>

\* ------------------------------------------------------------ specification

Next ==
    \E c \in Calls :
        \/ topUp(c)
        \/ grantBonus(c)
        \/ spend(c)
        \/ AdvisoryLock(c)
        \/ IdempotencyCheck(c)
        \/ EnsureWallet(c)
        \/ LockWalletRow(c)
        \/ CheckBalance(c)
        \/ InsertTransaction(c)
        \/ UpdateSource(c)
        \/ InsertDebit(c)
        \/ UpdateDest(c)
        \/ InsertCredit(c)
        \/ CompleteTransaction(c)
        \/ InvalidateCaches(c)
        \/ Commit(c)

Spec == Init /\ [][Next]_vars

\* The engine with statements that may throw at any step of a transaction.
NextAbort == Next \/ \E c \in Calls : Abort(c)

SpecAbort == Init /\ [][NextAbort]_vars

\* The engine over a store that holds a row inserted by hand.
SpecStored == InitStored /\ [][Next]_vars

\* The steps of the open transaction of call c, from the advisory lock to
\* COMMIT or ROLLBACK.
Step(c) ==
    \/ AdvisoryLock(c)
    \/ IdempotencyCheck(c)
    \/ EnsureWallet(c)
    \/ LockWalletRow(c)
    \/ CheckBalance(c)
    \/ InsertTransaction(c)
    \/ UpdateSource(c)
    \/ InsertDebit(c)
    \/ UpdateDest(c)
    \/ InsertCredit(c)
    \/ CompleteTransaction(c)
    \/ InvalidateCaches(c)
    \/ Commit(c)

\* The engine with each call's callback run on when its statement can run: the
\* await of each statement resumes once the store has answered, and the store
\* grants a released lock to a waiter.
FairSpec == Spec /\ \A c \in Calls : WF_vars(Step(c))

\* ------------------------------------------------------------ observations

\* getBalance(userId, assetTypeId) over rows: the balance of the wallet, "0"
\* when there is none.
getBalance(rows, userId, asset) ==
    LET found == WalletRows(rows, userId, asset)
    IN IF found = {} THEN 0 ELSE (CHOOSE w \in found : TRUE).balance

\* The call returned a Transaction / threw error.
Returned(c) == pc[c] = "done" /\ result[c].outcome = "returned"

Threw(c, error) == pc[c] = "done" /\ result[c].outcome = error

\* The amount of the call is a finite number.
Finite(c) == amountDecimal(c) # NaN

\* The wallet the call takes from holds the amount when provisioned.
Funded(c) ==
    ~lessThan(getBalance(SeedWallets, fromUserId(c), assetTypeId(c)), amountDecimal(c))

\* What the call adds to the balance of its user: the amount of a top-up or a
\* bonus, minus the amount of a spend.
UserDelta(c) == IF args[c].op = "spend" THEN 0 - amountDecimal(c) ELSE amountDecimal(c)

\* ---------------------------------------------------------------- getBalance

\* The balance keys read in the runs of the cache, and the calls of getBalance
\* in one run.
ReadKeys == {cacheKey(TEST_USER_1_ID, 1)}

MaxReads == 2

\* The transfers in the runs of the cache: top-ups and spends of 0.01 GOLD by
\* test user 1.
CachedRequests == {TEST_USER_1_ID} \X AssetCodes \X {Cent} \X IdempotencyKeys

\* redis.get(cacheKey): a hit returns the cached value, a miss goes on to the
\* store. quiet records that every transfer of the run had ended by then.
RedisGet(userId, asset) ==
    /\ reader.pc \in {"idle", "returned"}
    /\ reader.reads < MaxReads
    /\ LET cached == cache[cacheKey(userId, asset)]
       IN reader' = [pc |-> IF cached # NULL THEN "returned" ELSE "select",
                     userId |-> userId, assetTypeId |-> asset, value |-> cached,
                     reads |-> reader.reads + 1,
                     quiet |-> \A c \in Calls : pc[c] = "done"]
    /\ UNCHANGED <<wallets, transactions, ledger_entries, wallets_id_seq, ledger_id_seq,
                   pc, args, result, advisory, rowLocks, lockedWallets, txWallets,
                   txTransactions, txLedger, cache, limiter>>

\* SELECT balance FROM wallets, outside of any transaction: the committed row.
SelectBalance ==
    /\ reader.pc = "select"
    /\ reader' = [reader EXCEPT !.pc = "set",
                                !.value = getBalance(wallets, reader.userId,
                                                     reader.assetTypeId)]
    /\ UNCHANGED <<wallets, transactions, ledger_entries, wallets_id_seq, ledger_id_seq,
                   pc, args, result, advisory, rowLocks, lockedWallets, txWallets,
                   txTransactions, txLedger, cache, limiter>>

\* redis.set(cacheKey, balance, "EX", 60) and return balance.
RedisSet ==
    /\ reader.pc = "set"
    /\ cache' = [cache EXCEPT ![cacheKey(reader.userId, reader.assetTypeId)] =
                   reader.value]
    /\ reader' = [reader EXCEPT !.pc = "returned"]
    /\ UNCHANGED <<wallets, transactions, ledger_entries, wallets_id_seq, ledger_id_seq,
                   pc, args, result, advisory, rowLocks, lockedWallets, txWallets,
                   txTransactions, txLedger, limiter>>

\* The 60 seconds of a cached value are over: redis drops the key.
Expire ==
    /\ \E k \in CacheKeys :
          /\ cache[k] # NULL
          /\ cache' = [cache EXCEPT ![k] = NULL]
    /\ UNCHANGED <<wallets, transactions, ledger_entries, wallets_id_seq, ledger_id_seq,
                   pc, args, result, advisory, rowLocks, lockedWallets, txWallets,
                   txTransactions, txLedger, reader, limiter>>

\* The engine next to a client that reads a balance through the cache.
NextCache ==
    \/ \E c \in Calls : \E r \in CachedRequests : \E op \in {"topUp", "spend"} :
          Enter(c, op, r[1], r[2], r[3], r[4])
    \/ \E c \in Calls : Step(c)
    \/ \E k \in ReadKeys : RedisGet(k[1], k[2])
    \/ SelectBalance
    \/ RedisSet
    \/ Expire

SpecCache == Init /\ [][NextCache]_vars

\* ------------------------------------------------- amounts below half a cent

\* Transfers of "0.001" and "0.004" GOLD by test user 1.
SubCentRequests == {TEST_USER_1_ID} \X AssetCodes \X {1, 4} \X IdempotencyKeys

\* The engine on amounts below half a cent.
NextSubCent ==
    \/ \E c \in Calls : \E r \in SubCentRequests :
          \E op \in {"topUp", "grantBonus", "spend"} :
             Enter(c, op, r[1], r[2], r[3], r[4])
    \/ \E c \in Calls : Step(c)

SpecSubCent == Init /\ [][NextSubCent]_vars

\* --------------------------------------------------------------- rateLimiter

\* redis.get(key) and the comparison with max: the request is answered 429,
\* or goes on to count itself.
RedisGetCount(q) ==
    /\ limiter.requests[q].pc = "idle"
    /\ LET count == IF limiter.current # NULL THEN limiter.current ELSE 0
       IN limiter' = [limiter EXCEPT !.requests[q] =
                        [pc |-> IF count >= max THEN "429" ELSE "multi",
                         count |-> count]]
    /\ UNCHANGED <<wallets, transactions, ledger_entries, wallets_id_seq, ledger_id_seq,
                   pc, args, result, advisory, rowLocks, lockedWallets, txWallets,
                   txTransactions, txLedger, cache, reader>>

\* multi.incr(key), multi.pexpire(key, windowMs) if the count read was 0,
\* multi.exec() and next().
MultiExec(q) ==
    /\ limiter.requests[q].pc = "multi"
    /\ limiter' = [limiter EXCEPT
          !.current = (IF @ = NULL THEN 0 ELSE @) + 1,
          !.pexpire = IF limiter.requests[q].count = 0 THEN TRUE ELSE @,
          !.requests[q].pc = "next"]
    /\ UNCHANGED <<wallets, transactions, ledger_entries, wallets_id_seq, ledger_id_seq,
                   pc, args, result, advisory, rowLocks, lockedWallets, txWallets,
                   txTransactions, txLedger, cache, reader>>

\* redis.get or multi.exec threw: the catch passes the request on.
FailOpen(q) ==
    /\ limiter.requests[q].pc \in {"idle", "multi"}
    /\ limiter' = [limiter EXCEPT !.requests[q].pc = "failed open"]
    /\ UNCHANGED <<wallets, transactions, ledger_entries, wallets_id_seq, ledger_id_seq,
                   pc, args, result, advisory, rowLocks, lockedWallets, txWallets,
                   txTransactions, txLedger, cache, reader>>

\* windowMs after pexpire: redis drops the key. A key without expiry stays.
WindowElapsed ==
    /\ limiter.current # NULL /\ limiter.pexpire
    /\ limiter' = [limiter EXCEPT !.current = NULL, !.pexpire = FALSE,
                                  !.elapsed = @ + 1]
    /\ UNCHANGED <<wallets, transactions, ledger_entries, wallets_id_seq, ledger_id_seq,
                   pc, args, result, advisory, rowLocks, lockedWallets, txWallets,
                   txTransactions, txLedger, cache, reader>>

\* The requests of one client in front of the limiter.
NextLimiter ==
    \/ \E q \in 1..MaxRequests :
          \/ RedisGetCount(q)
          \/ MultiExec(q)
          \/ FailOpen(q)
    \/ WindowElapsed

SpecLimiter == Init /\ [][NextLimiter]_vars

\* ------------------------------------------------------------------ claims

\* C1: two concurrent calls of one operation with the same idempotency key,
\* user, asset and amount (a finite amount the source wallet holds, a user other
\* than the system) end, under every interleaving, with exactly one row of that
\* key, COMPLETED; both calls return that row; the user's wallet has changed by
\* the amount once and the system wallet by the amount once, the other way.
C1_IdenticalCallsOneEffect ==
    \A c, d \in Calls :
        ( /\ c < d
          /\ pc[c] = "done" /\ pc[d] = "done"
          /\ args[c] = args[d]
          /\ getAssetType(args[c].assetCode) # NoAsset
          /\ Finite(c) /\ amountDecimal(c) > 0 /\ Funded(c)
          /\ args[c].userId # SYSTEM_USER_ID )
        => LET rows == { t \in transactions : t.idempotency_key = idempotencyKey(c) }
               asset == assetTypeId(c)
           IN /\ Cardinality(rows) = 1
              /\ \A t \in rows :
                    /\ t.status = "COMPLETED"
                    /\ Returned(c) /\ result[c].transaction.id = t.id
                    /\ Returned(d) /\ result[d].transaction.id = t.id
              /\ getBalance(wallets, args[c].userId, asset)
                    = getBalance(SeedWallets, args[c].userId, asset) + UserDelta(c)
              /\ getBalance(wallets, SYSTEM_USER_ID, asset)
                    = getBalance(SeedWallets, SYSTEM_USER_ID, asset) - UserDelta(c)

\* C2: once a COMPLETED row of key k is committed, a call with the same key and
\* the arguments of the call that wrote it, which has not yet read the key,
\* takes no step that changes the wallets, the transactions or the ledger or
\* draws a wallet or ledger id, and its read of the key ends it returning the
\* stored row.
C2_ReplayReturnsStored ==
    [][ \A d \in Calls : \A t \in transactions :
          ( /\ pc[d] \in {"advisory", "gate"}
            /\ pc'[d] # pc[d]
            /\ t.idempotency_key = idempotencyKey(d)
            /\ t.status = "COMPLETED"
            /\ t.id # d /\ args[t.id] = args[d] )
          => /\ wallets' = wallets
             /\ transactions' = transactions
             /\ ledger_entries' = ledger_entries
             /\ wallets_id_seq' = wallets_id_seq
             /\ ledger_id_seq' = ledger_id_seq
             /\ pc[d] = "gate" =>
                   /\ pc'[d] = "done"
                   /\ result'[d] = [outcome |-> "returned", transaction |-> t]
      ]_vars

\* C2 (case): a call has returned the row another call with the same arguments
\* committed.
C2_Replayed ==
    \E c, d \in Calls :
        /\ c # d /\ args[c] = args[d]
        /\ Returned(c) /\ result[c].transaction.id = c
        /\ Returned(d) /\ result[d].transaction.id = c
        /\ result[d].transaction \in transactions

\* C3: every committed wallet balance is a number and is >= 0.
C3_BalanceNonNegative ==
    \A w \in wallets : w.balance # NaN /\ w.balance >= 0

\* The sum of the balances of rows (NaN when one of them is NaN).
RECURSIVE SumBalances(_)
SumBalances(rows) ==
    IF rows = {} THEN 0
    ELSE LET w == CHOOSE x \in rows : TRUE
         IN plus(w.balance, SumBalances(rows \ {w}))

\* The sum of the amounts of ledger entries.
RECURSIVE SumAmounts(_)
SumAmounts(entries) ==
    IF entries = {} THEN 0
    ELSE LET e == CHOOSE x \in entries : TRUE
         IN plus(e.amount, SumAmounts(entries \ {e}))

\* C4: for every asset, the sum of the committed balances of its wallets is
\* what it was at provisioning (stated for the states whose balances are all
\* numbers).
C4_SumConserved ==
    \A a \in asset_types :
        (\A w \in wallets : w.balance # NaN) =>
        SumBalances({ w \in wallets : w.asset_type_id = a.id })
            = SumBalances({ w \in SeedWallets : w.asset_type_id = a.id })

\* C5: every committed COMPLETED transaction has exactly two ledger entries,
\* one DEBIT and one CREDIT, each of the transaction's amount.
C5_DoubleEntry ==
    \A t \in transactions :
        t.status = "COMPLETED" =>
            LET entries == { e \in ledger_entries : e.transaction_id = t.id }
            IN /\ Cardinality(entries) = 2
               /\ Cardinality({ e \in entries : e.entry_type = "DEBIT" }) = 1
               /\ Cardinality({ e \in entries : e.entry_type = "CREDIT" }) = 1
               /\ \A e \in entries : e.amount = t.amount

\* C5 (case): a COMPLETED transaction and its ledger entries are committed.
C5_Completed ==
    \E t \in transactions : \E e \in ledger_entries :
        t.status = "COMPLETED" /\ e.transaction_id = t.id

\* C6: for every committed wallet, the CREDIT amounts of its ledger entries
\* minus their DEBIT amounts are its balance.
C6_LedgerReconstructsBalance ==
    \A w \in wallets :
        minus(SumAmounts({ e \in ledger_entries :
                              e.wallet_id = w.id /\ e.entry_type = "CREDIT" }),
              SumAmounts({ e \in ledger_entries :
                              e.wallet_id = w.id /\ e.entry_type = "DEBIT" }))
            = w.balance

\* C7: two top-ups of one finite amount a to one user (not the system) on one
\* asset, with distinct keys and 2a provisioned in the system wallet, both
\* return, with two distinct committed COMPLETED transactions; the user's
\* balance ends at its provisioned balance + 2a and the system's at its
\* provisioned balance - 2a.
C7_NoLostUpdate ==
    \A c, d \in Calls :
        ( /\ c < d
          /\ pc[c] = "done" /\ pc[d] = "done"
          /\ args[c].op = "topUp" /\ args[d].op = "topUp"
          /\ args[c].userId = args[d].userId /\ args[c].userId # SYSTEM_USER_ID
          /\ args[c].assetCode = args[d].assetCode
          /\ getAssetType(args[c].assetCode) # NoAsset
          /\ args[c].amount = args[d].amount
          /\ Finite(c) /\ amountDecimal(c) > 0
          /\ idempotencyKey(c) # idempotencyKey(d)
          /\ 2 * amountDecimal(c)
                <= getBalance(SeedWallets, SYSTEM_USER_ID, assetTypeId(c)) )
        => LET asset == assetTypeId(c)
               a == amountDecimal(c)
           IN /\ Returned(c) /\ Returned(d)
              /\ result[c].transaction.id # result[d].transaction.id
              /\ \A x \in {c, d} :
                    /\ result[x].transaction \in transactions
                    /\ result[x].transaction.status = "COMPLETED"
              /\ getBalance(wallets, args[c].userId, asset)
                    = getBalance(SeedWallets, args[c].userId, asset) + 2 * a
              /\ getBalance(wallets, SYSTEM_USER_ID, asset)
                    = getBalance(SeedWallets, SYSTEM_USER_ID, asset) - 2 * a

\* C8: two spends of one finite amount a by one user (not the system) on one
\* asset, with distinct keys, from the provisioned balance b: min(2, floor(b/a))
\* of them return and the others throw InsufficientFundsError; the balance ends
\* at b - a * (the number that returned); no ledger entry of the wallet has a
\* negative balance_after.
C8_NoDoubleSpend ==
    \A c, d \in Calls :
        ( /\ c < d
          /\ pc[c] = "done" /\ pc[d] = "done"
          /\ args[c].op = "spend" /\ args[d].op = "spend"
          /\ args[c].userId = args[d].userId /\ args[c].userId # SYSTEM_USER_ID
          /\ args[c].assetCode = args[d].assetCode
          /\ getAssetType(args[c].assetCode) # NoAsset
          /\ args[c].amount = args[d].amount
          /\ Finite(c) /\ amountDecimal(c) > 0
          /\ idempotencyKey(c) # idempotencyKey(d) )
        => LET asset == assetTypeId(c)
               a == amountDecimal(c)
               b == getBalance(SeedWallets, args[c].userId, asset)
               completed == { x \in {c, d} : Returned(x) }
               mine == WalletRows(wallets, args[c].userId, asset)
           IN /\ Cardinality(completed) = (IF b \div a < 2 THEN b \div a ELSE 2)
              /\ \A x \in {c, d} \ completed : Threw(x, "InsufficientFundsError")
              /\ getBalance(wallets, args[c].userId, asset)
                    = b - a * Cardinality(completed)
              /\ \A w \in mine : \A e \in ledger_entries :
                    e.wallet_id = w.id => e.balance_after >= 0

\* C9: the balance check of a spend whose finite amount is above the balance of
\* the locked source wallet ends the call with InsufficientFundsError, leaves
\* the committed wallets, transactions and ledger as they are and keeps none of
\* the call's writes; a call that threw InsufficientFundsError has no
\* transaction and no ledger entry, and while no transaction is committed the
\* wallets are the provisioned ones.
C9_OverspendNoSideEffect ==
    /\ [][ \A c \in Calls :
             ( /\ pc[c] = "check" /\ pc'[c] # pc[c]
               /\ args[c].op = "spend"
               /\ Finite(c) /\ sourceBalance(c) # NaN
               /\ amountDecimal(c) > sourceBalance(c) )
             => /\ pc'[c] = "done"
                /\ result'[c].outcome = "InsufficientFundsError"
                /\ wallets' = wallets
                /\ transactions' = transactions
                /\ ledger_entries' = ledger_entries
                /\ txWallets'[c] = {} /\ txTransactions'[c] = {} /\ txLedger'[c] = {}
         ]_vars
    /\ [](\A c \in Calls :
             Threw(c, "InsufficientFundsError") =>
                /\ \A t \in transactions : t.id # c
                /\ \A e \in ledger_entries : e.transaction_id # c
                /\ transactions = {} => (wallets = SeedWallets /\ ledger_entries = {}))

\* C9 (case): a spend of a user without a wallet threw InsufficientFundsError
\* after auto-onboarding had inserted the wallet, and no wallet of the user is
\* committed.
C9_OverspendWithoutWallet ==
    \E c \in Calls :
        /\ Threw(c, "InsufficientFundsError")
        /\ args[c].op = "spend" /\ args[c].userId = TEST_USER_3_ID
        /\ amountDecimal(c) = Cent
        /\ wallets_id_seq > Cardinality(SeedWallets)
        /\ WalletRows(wallets, TEST_USER_3_ID, assetTypeId(c)) = {}

\* C10: a spend of a finite amount a by a user other than the system, whose
\* locked wallet holds the number b, passes the balance check if and only if
\* a <= b, and its commit leaves the wallet at b - a.
C10_SpendIffCovered ==
    [][ \A c \in Calls :
          ( /\ args[c].op = "spend" /\ args[c].userId # SYSTEM_USER_ID
            /\ pc'[c] # pc[c]
            /\ pc[c] \in {"check", "commit"}
            /\ Finite(c) /\ sourceBalance(c) # NaN )
          => /\ pc[c] = "check" =>
                   ((pc'[c] = "insert") <=> (amountDecimal(c) <= sourceBalance(c)))
             /\ pc[c] = "commit" =>
                   getBalance(wallets', args[c].userId, assetTypeId(c))
                      = sourceBalance(c) - amountDecimal(c)
      ]_vars

\* C11: a call whose amount is zero or negative, or whose asset code matches no
\* asset type, ends at once with an error: its start changes no wallet,
\* transaction or ledger row, draws no id and takes no lock, and the call holds
\* no lock and has no row afterwards.
C11_RejectedBeforeTransaction ==
    /\ [][ \A c \in Calls :
             ( /\ pc[c] = "idle" /\ pc'[c] # "idle"
               /\ \/ getAssetType(args'[c].assetCode) = NoAsset
                  \/ (args'[c].amount # NaN /\ args'[c].amount <= 0) )
             => /\ pc'[c] = "done"
                /\ result'[c].outcome \in {"Invalid asset code", "Amount must be positive"}
                /\ result'[c].transaction = NoTransaction
                /\ wallets' = wallets
                /\ transactions' = transactions
                /\ ledger_entries' = ledger_entries
                /\ wallets_id_seq' = wallets_id_seq
                /\ ledger_id_seq' = ledger_id_seq
                /\ advisory' = advisory /\ rowLocks' = rowLocks
         ]_vars
    /\ [](\A c \in Calls :
             (Threw(c, "Invalid asset code") \/ Threw(c, "Amount must be positive")) =>
                /\ ~advisory[c] /\ rowLocks[c] = {}
                /\ txWallets[c] = {} /\ txTransactions[c] = {} /\ txLedger[c] = {}
                /\ \A t \in transactions : t.id # c)

\* C11 (case): a call with an unknown asset code and a call with a negative
\* amount have been rejected.
C11_Rejected ==
    \E c, d \in Calls :
        /\ Threw(c, "Invalid asset code") /\ args[c].assetCode = "INVALID"
        /\ Threw(d, "Amount must be positive") /\ args[d].amount < 0

\* C12: when a committed row of the call's key has a status other than
\* COMPLETED, the call's read of the key ends it with IdempotencyError; the
\* step changes no wallet, transaction or ledger row, draws no id and keeps
\* none of the call's writes; afterwards the row is there with its status and
\* the call has no transaction and no ledger entry.
C12_ConflictChangesNothing ==
    /\ [][ \A d \in Calls :
             ( /\ pc[d] = "gate" /\ pc'[d] # pc[d]
               /\ \E t \in transactions :
                     t.idempotency_key = idempotencyKey(d) /\ t.status # "COMPLETED" )
             => /\ pc'[d] = "done"
                /\ result'[d] = [outcome |-> "IdempotencyError",
                                 transaction |-> NoTransaction]
                /\ wallets' = wallets
                /\ transactions' = transactions
                /\ ledger_entries' = ledger_entries
                /\ wallets_id_seq' = wallets_id_seq
                /\ ledger_id_seq' = ledger_id_seq
                /\ txWallets'[d] = {} /\ txTransactions'[d] = {} /\ txLedger'[d] = {}
         ]_vars
    /\ [](\A d \in Calls :
             Threw(d, "IdempotencyError") =>
                /\ \E t \in transactions \cap StoredTransactions :
                      t.idempotency_key = idempotencyKey(d)
                /\ \A t \in transactions : t.id # d
                /\ \A e \in ledger_entries : e.transaction_id # d)

\* C12 (case): a call has thrown IdempotencyError on a stored PENDING row and
\* another on a stored FAILED row (in another run).
C12_Conflict ==
    \E d \in Calls : \E t \in transactions :
        /\ Threw(d, "IdempotencyError")
        /\ t.idempotency_key = idempotencyKey(d) /\ t.status = "FAILED"
        /\ args[d].userId = TEST_USER_3_ID

InProgress(c) == pc[c] \notin {"idle", "done"}

\* The calls whose open transaction holds the lock the next statement of call
\* c needs: the advisory lock of its key, an uncommitted insert of the wallet
\* it inserts, the row lock of the wallet it selects for update, or an
\* uncommitted insert of its idempotency key.
WaitsFor(c) ==
    IF pc[c] = "advisory"
    THEN { d \in Calls \ {c} : advisory[d] /\ advisoryLockKey(d) = advisoryLockKey(c) }
    ELSE IF pc[c] \in {"ensure1", "ensure2"}
    THEN LET uid == sortedUserIds(fromUserId(c), toUserId(c))[IF pc[c] = "ensure1" THEN 1 ELSE 2]
         IN { d \in Calls \ {c} :
                \E w \in WalletRows(txWallets[d], uid, assetTypeId(c)) :
                    \A x \in wallets : x.id # w.id }
    ELSE IF pc[c] \in {"lock1", "lock2"}
    THEN LET uid == sortedUserIds(fromUserId(c), toUserId(c))[IF pc[c] = "lock1" THEN 1 ELSE 2]
         IN { d \in Calls \ {c} :
                \E w \in WalletRows(WalletsSeenBy(c), uid, assetTypeId(c)) :
                    w.id \in rowLocks[d] }
    ELSE IF pc[c] = "insert"
    THEN { d \in Calls \ {c} :
             \E t \in txTransactions[d] : t.idempotency_key = idempotencyKey(c) }
    ELSE {}

\* C14: no deadlock. A call in progress waits only for calls in progress, and
\* its next statement can run when it waits for none; no set of calls is such
\* that each of them waits for one of the set (no cycle of waits); and again
\* and again no call is in progress, so that every call in progress ends, by
\* COMMIT or by an error, with no timeout to end a wait.
C14_NoDeadlock ==
    /\ [](\A c \in Calls :
             InProgress(c) =>
                /\ \A d \in WaitsFor(c) : InProgress(d)
                /\ WaitsFor(c) = {} => ENABLED Step(c))
    /\ [](\A S \in (SUBSET Calls) \ {{}} : \E c \in S : WaitsFor(c) \cap S = {})
    /\ []<>(\A c \in Calls : ~InProgress(c))

\* C14 (case): a top-up and a spend of one user with one idempotency key are
\* both in progress, one waiting for the advisory lock the other holds.
C14_Waiting ==
    \E c, d \in Calls :
        /\ args[c].op = "topUp" /\ args[d].op = "spend"
        /\ args[c].userId = args[d].userId /\ args[c].userId # SYSTEM_USER_ID
        /\ idempotencyKey(c) = idempotencyKey(d)
        /\ InProgress(c) /\ InProgress(d)
        /\ (c \in WaitsFor(d) \/ d \in WaitsFor(c))

\* C15: for a user u other than the system, an asset and a finite amount x
\* not above u's balance, once spend(u, a, x) has completed and then
\* topUp(u, a, x) with another key has completed, the balance of u's wallet
\* and the balance of the system wallet are their values before the spend.
C15_SpendThenTopUpRestores ==
    \A c, d \in Calls :
        ( /\ Returned(c) /\ Returned(d)
          /\ args[c].op = "spend" /\ args[d].op = "topUp"
          /\ args[c].userId = args[d].userId /\ args[c].userId # SYSTEM_USER_ID
          /\ args[c].assetCode = args[d].assetCode
          /\ args[c].amount = args[d].amount
          /\ Finite(c) /\ Funded(c)
          /\ idempotencyKey(c) # idempotencyKey(d)
          /\ Calls = {c, d}
          /\ \A e \in ledger_entries : \A f \in ledger_entries :
                (e.transaction_id = c /\ f.transaction_id = d) => e.id < f.id )
        => /\ getBalance(wallets, args[c].userId, assetTypeId(c))
                = getBalance(SeedWallets, args[c].userId, assetTypeId(c))
           /\ getBalance(wallets, SYSTEM_USER_ID, assetTypeId(c))
                = getBalance(SeedWallets, SYSTEM_USER_ID, assetTypeId(c))

\* C16: in every committed state no two transaction rows share an idempotency
\* key, whatever the interleaving and whatever the users and assets of the
\* calls that carry the key.
C16_KeyUnique ==
    \A t, u \in transactions : t.idempotency_key = u.idempotency_key => t = u

\* C16 (case): two calls carried one key for different users at the same time;
\* one has committed its row and the other was stopped at its INSERT.
C16_SecondInsertStopped ==
    \E c, d \in Calls :
        /\ idempotencyKey(c) = idempotencyKey(d)
        /\ args[c].userId # args[d].userId
        /\ Returned(c) /\ result[c].transaction.id = c
        /\ Threw(d, "duplicate key value violates unique constraint")
        /\ \E t \in transactions : t.id = c /\ t.idempotency_key = idempotencyKey(d)

\* C17: topUp and grantBonus never fail with InsufficientFundsError, whatever
\* the balance of the system wallet; that failure is an outcome of spend
\* alone. Stated for calls of users other than the system with finite
\* amounts.
C17_CreditNeverInsufficient ==
    \A c \in Calls :
        ( /\ pc[c] = "done"
          /\ args[c].op \in {"topUp", "grantBonus"}
          /\ args[c].userId # SYSTEM_USER_ID
          /\ Finite(c) )
        => result[c].outcome # "InsufficientFundsError"

\* C18: in every committed state every ledger entry has a balance_after that
\* is a number >= 0.
C18_BalanceAfterNonNegative ==
    \A e \in ledger_entries : e.balance_after # NaN /\ e.balance_after >= 0

\* C19: in every committed state, for every wallet that has a ledger entry,
\* the latest of its entries (greatest created_at, among equals greatest id)
\* has balance_after equal to the wallet's balance. Stated for calls of users
\* other than the system with finite amounts.
C19_LatestEntryIsBalance ==
    (\A c \in Calls : pc[c] # "idle" => Finite(c) /\ args[c].userId # SYSTEM_USER_ID)
    => \A w \in wallets :
          LET mine == { e \in ledger_entries : e.wallet_id = w.id }
          IN mine # {} =>
                LET latest == CHOOSE e \in mine : \A f \in mine :
                                 \/ f.created_at < e.created_at
                                 \/ (f.created_at = e.created_at /\ f.id <= e.id)
                IN latest.balance_after = w.balance

\* C20: the COMMIT of a topUp or grantBonus of amount x for user u moves x
\* from the system wallet to u's wallet (system balance - x, user balance + x,
\* a DEBIT of x on the system wallet, a CREDIT of x on u's wallet); the COMMIT
\* of a spend moves x from u's wallet to the system wallet (user DEBIT, system
\* CREDIT); the transaction row has user_id u and kind TOP_UP, BONUS or SPEND.
\* Stated for calls of users other than the system with finite amounts.
C20_MovesAmount ==
    [][ \A c \in Calls :
          ( /\ pc[c] = "commit" /\ pc'[c] = "done"
            /\ Finite(c) /\ args[c].userId # SYSTEM_USER_ID )
          => LET u == args[c].userId
                 a == assetTypeId(c)
                 x == amountDecimal(c)
                 mine == { e \in ledger_entries' : e.transaction_id = c }
                 walletOf(uid) == CHOOSE w \in WalletRows(wallets', uid, a) : TRUE
             IN /\ getBalance(wallets', u, a) = getBalance(wallets, u, a) + UserDelta(c)
                /\ getBalance(wallets', SYSTEM_USER_ID, a)
                      = getBalance(wallets, SYSTEM_USER_ID, a) - UserDelta(c)
                /\ { <<e.wallet_id, e.entry_type, e.amount>> : e \in mine }
                      = { <<walletOf(fromUserId(c)).id, "DEBIT", x>>,
                          <<walletOf(toUserId(c)).id, "CREDIT", x>> }
                /\ Cardinality(mine) = 2
                /\ \E t \in transactions' :
                      /\ t.id = c /\ t.user_id = u /\ t.amount = x
                      /\ t.status = "COMPLETED"
                      /\ t.transaction_type = transactionType(c)
                /\ fromUserId(c) = (IF args[c].op = "spend" THEN u ELSE SYSTEM_USER_ID)
                /\ transactionType(c) =
                      (IF args[c].op = "topUp" THEN "TOP_UP"
                       ELSE IF args[c].op = "grantBonus" THEN "BONUS" ELSE "SPEND")
      ]_vars

\* ------------------------------------------------------ ordering at the gate

\* The call has read the transactions of its key and gone on: it stands
\* between that read and its COMMIT or ROLLBACK.
PastGate(c) == InProgress(c) /\ pc[c] \notin {"advisory", "gate"}

\* C21: two calls that carry one idempotency key are ordered at the gate, also
\* when their users or assets differ: none of them reads the transactions of
\* the key while the other stands between its own read and its COMMIT or
\* ROLLBACK, so never are both past the gate at once. Stated for calls of
\* users other than the system with finite amounts.
C21_SameKeyOrderedAtGate ==
    \A c, d \in Calls :
        ( /\ c # d
          /\ InProgress(c) /\ InProgress(d)
          /\ idempotencyKey(c) = idempotencyKey(d)
          /\ Finite(c) /\ Finite(d)
          /\ args[c].userId # SYSTEM_USER_ID /\ args[d].userId # SYSTEM_USER_ID )
        => ~(PastGate(c) /\ PastGate(d))

\* C22: when the INSERT of a call's transaction row meets a committed row of
\* its idempotency key (the call passed the gate together with the call that
\* wrote it), the call ends with IdempotencyError, not with a generic error,
\* and the step changes no wallet, transaction or ledger row. Stated for
\* calls of users other than the system with finite amounts.
C22_LostInsertIsConflict ==
    [][ \A c \in Calls :
          ( /\ pc[c] = "insert" /\ pc'[c] # pc[c]
            /\ \E t \in transactions : t.idempotency_key = idempotencyKey(c)
            /\ \A d \in Calls : pc[d] # "idle" =>
                  (Finite(d) /\ args[d].userId # SYSTEM_USER_ID) )
          => /\ pc'[c] = "done"
             /\ result'[c].outcome = "IdempotencyError"
             /\ wallets' = wallets
             /\ transactions' = transactions
             /\ ledger_entries' = ledger_entries
      ]_vars

\* -------------------------------------------------------------- atomicity

\* C23: a step at which a call of an open transaction ends with an error, at
\* whichever statement it stood, leaves the committed wallets, transactions
\* and ledger entries as they were and keeps none of the call's writes; the
\* committed store changes only at the COMMIT of a call that returns; and a
\* COMMIT that changes a wallet of a transfer between two users changes the
\* source wallet and the destination wallet together.
C23_AbortLeavesStore ==
    /\ [][ \A c \in Calls :
             (InProgress(c) /\ pc'[c] = "done" /\ result'[c].outcome # "returned")
             => /\ wallets' = wallets
                /\ transactions' = transactions
                /\ ledger_entries' = ledger_entries
                /\ txWallets'[c] = {} /\ txTransactions'[c] = {} /\ txLedger'[c] = {}
         ]_vars
    /\ [][ (wallets' # wallets \/ transactions' # transactions
              \/ ledger_entries' # ledger_entries)
           => \E c \in Calls :
                 /\ pc[c] = "commit" /\ pc'[c] = "done"
                 /\ result'[c].outcome = "returned"
                 /\ fromUserId(c) # toUserId(c) =>
                       \A uid \in {fromUserId(c), toUserId(c)} :
                          /\ WalletRows(wallets', uid, assetTypeId(c)) # {}
                          /\ WalletRows(wallets', uid, assetTypeId(c)) \cap wallets = {}
         ]_vars
    /\ [](\A c \in Calls :
             (pc[c] = "done" /\ result[c].outcome # "returned")
             => /\ \A t \in transactions : t.id # c
                /\ \A e \in ledger_entries : e.transaction_id # c)

\* C23 (case): a call was aborted after its two wallet UPDATEs and its two
\* ledger INSERTs (the ids of the entries are drawn), and the committed store
\* is the one before the call.
C23_AbortedAfterWrites ==
    \E c \in Calls :
        /\ Threw(c, StatementTimeout)
        /\ ledger_id_seq = 2
        /\ wallets = SeedWallets /\ transactions = {} /\ ledger_entries = {}
        /\ \A d \in Calls \ {c} : pc[d] = "idle"

\* C24: in every committed state every transaction row has status COMPLETED:
\* a PENDING row exists only among the writes of its own open transaction,
\* which no other call and no query reads, and no call writes status FAILED,
\* whether it returns or ends with an error.
C24_CommittedRowsCompleted ==
    /\ \A t \in transactions : t.status = "COMPLETED"
    /\ \A c \in Calls : \A t \in txTransactions[c] :
          /\ t.status \in {"PENDING", "COMPLETED"}
          /\ t.id = c
          /\ InProgress(c)

\* C24 (case): a call holds its PENDING row while another call with the same
\* key reads the transactions of the key and finds none.
C24_PendingUnseen ==
    \E c, d \in Calls :
        /\ \E t \in txTransactions[c] : t.status = "PENDING"
        /\ pc[d] = "gate" /\ idempotencyKey(d) = idempotencyKey(c)
        /\ transactions = {}

\* ------------------------------------------------------- mutual exclusion

\* The critical section of a call: from its read of the locked wallets to its
\* COMMIT or ROLLBACK.
InCriticalSection(c) ==
    pc[c] \in {"check", "insert", "update_source", "debit", "update_dest", "credit",
               "complete", "invalidate", "commit"}

SamePair(c, d) ==
    /\ pc[c] # "idle" /\ pc[d] # "idle"
    /\ args[c].userId = args[d].userId
    /\ args[c].assetCode = args[d].assetCode

\* C25: the critical sections of two calls on one (user, asset) pair never
\* overlap, whatever their operations and keys: while one call stands between
\* its read of the locked wallets and its COMMIT or ROLLBACK, the other has
\* not passed the advisory lock, so it holds no row lock, has read no wallet
\* and has written no wallet, transaction or ledger row.
C25_CriticalSectionsExclusive ==
    \A c, d \in Calls :
        (c # d /\ SamePair(c, d) /\ InCriticalSection(c))
        => /\ ~advisory[d]
           /\ pc[d] \in {"advisory", "done"}
           /\ rowLocks[d] = {} /\ lockedWallets[d] = {}
           /\ txWallets[d] = {} /\ txTransactions[d] = {} /\ txLedger[d] = {}

\* C25 (case): a spend of a user has written its PENDING row while a top-up
\* of the same user and asset, under another key, waits for the advisory lock.
C25_TopUpWaitsForSpend ==
    \E c, d \in Calls :
        /\ SamePair(c, d) /\ args[c].userId # SYSTEM_USER_ID
        /\ args[c].op = "spend" /\ args[d].op = "topUp"
        /\ idempotencyKey(c) # idempotencyKey(d)
        /\ pc[c] = "update_source" /\ pc[d] = "advisory"

\* ------------------------------------------------------------- lock order

\* user_id ASC: the order of the store on the text of the ids.
UserIdLess(u, v) == StrLess(uuid(u), uuid(v))

\* C26: in every transfer, whichever party is the source, the wallet of the
\* lesser user id is inserted-if-absent first and row-locked first: a call
\* about to insert or lock its first wallet has written and locked none, a
\* call about to insert its second wallet has inserted at most the wallet of
\* the lesser id, and a call about to lock its second wallet holds only the
\* row lock of a wallet whose user id is less than that of the wallet it is
\* about to lock, so it never holds the greater while waiting for the lesser.
C26_AscendingLockOrder ==
    \A c \in Calls :
        LET f == fromUserId(c)
            t == toUserId(c)
            lesser == IF UserIdLess(t, f) THEN t ELSE f
            greater == IF UserIdLess(t, f) THEN f ELSE t
        IN /\ pc[c] \in {"advisory", "gate", "ensure1"} =>
                 txWallets[c] = {} /\ rowLocks[c] = {}
           /\ pc[c] = "ensure2" =>
                 /\ rowLocks[c] = {}
                 /\ \A w \in txWallets[c] : w.user_id = lesser
           /\ pc[c] = "lock1" =>
                 /\ rowLocks[c] = {}
                 /\ \A w \in txWallets[c] : w.user_id \in {lesser, greater}
           /\ pc[c] = "lock2" =>
                 /\ lesser # greater
                 /\ lockedWallets[c] # {}
                 /\ \A w \in lockedWallets[c] :
                       /\ w.user_id = lesser
                       /\ UserIdLess(w.user_id, greater)
                       /\ w.id \in rowLocks[c]
                 /\ Cardinality(rowLocks[c]) = 1

\* C26 (case): a spend, whose source is the user, holds the row lock of the
\* system wallet and is about to lock the wallet of the user.
C26_SpendLocksSystemFirst ==
    \E c \in Calls :
        /\ pc[c] = "lock2" /\ args[c].op = "spend"
        /\ fromUserId(c) = TEST_USER_3_ID
        /\ \E w \in lockedWallets[c] : w.user_id = SYSTEM_USER_ID
        /\ \E w \in txWallets[c] : w.user_id = TEST_USER_3_ID

\* ---------------------------------------------------- the advisory-lock key

\* C27: the advisory-lock key depends on the set of the source, the
\* destination and the asset only: the key of (u to system) is the key of
\* (system to u), so two calls on one user and asset have one key whatever
\* their operations, idempotency keys and amounts; and the key is 64 bits,
\* four limbs of 16.
C27_LockKeyOfTheSet ==
    /\ \A f \in Users : \A t \in Users : \A a \in 1..3 :
          /\ LockKeys[f, t, a] = LockKeys[t, f, a]
          /\ Len(LockKeys[f, t, a]) = 4
          /\ \A i \in 1..4 : LockKeys[f, t, a][i] \in 0..(Limb - 1)
    /\ \A c, d \in Calls :
          ( /\ pc[c] # "idle" /\ pc[d] # "idle"
            /\ getAssetType(args[c].assetCode) # NoAsset
            /\ args[c].userId = args[d].userId
            /\ args[c].assetCode = args[d].assetCode )
          => advisoryLockKey(c) = advisoryLockKey(d)

\* C27 (case): a spend and a top-up of one user and asset, with different
\* idempotency keys and amounts, stand with one advisory-lock key.
C27_SpendAndTopUpOneKey ==
    \E c, d \in Calls :
        /\ InProgress(c) /\ InProgress(d)
        /\ args[c].op = "spend" /\ args[d].op = "topUp"
        /\ args[c].userId = TEST_USER_1_ID /\ args[d].userId = TEST_USER_1_ID
        /\ args[c].assetCode = "GOLD" /\ args[d].assetCode = "GOLD"
        /\ idempotencyKey(c) # idempotencyKey(d)
        /\ args[c].amount # args[d].amount
        /\ advisoryLockKey(c) = advisoryLockKey(d)

\* C28: in every committed state a COMPLETED transaction row has a
\* processed_at that is not null. Stated for calls of users other than the
\* system with finite amounts.
C28_ProcessedAtStamped ==
    \A t \in transactions :
        ( /\ t.status = "COMPLETED"
          /\ \A c \in Calls : pc[c] # "idle" =>
                (Finite(c) /\ args[c].userId # SYSTEM_USER_ID) )
        => t.processed_at # NULL

\* C29: for every wallet, its ledger entries in the order in which their
\* calls committed have non-decreasing created_at, equal only between the two
\* entries of one call. The entries of one wallet are inserted under its row
\* lock, which is held to the COMMIT, so their order of commit is the order
\* of their ids. Stated for calls of users other than the system with finite
\* amounts.
C29_CreatedAtFollowsCommit ==
    (\A c \in Calls : pc[c] # "idle" => Finite(c) /\ args[c].userId # SYSTEM_USER_ID)
    => \A e, f \in ledger_entries :
          (e.wallet_id = f.wallet_id /\ e.id < f.id)
          => /\ e.created_at <= f.created_at
             /\ e.created_at = f.created_at => e.transaction_id = f.transaction_id

\* --------------------------------------------------------- auto-onboarding

\* C30: in every committed state, and in the store as every open transaction
\* sees it, there is at most one wallet row for a (user, asset) pair, however
\* many calls reference the pair, at once or one after the other; the
\* insert-if-absent step writes only a wallet of a pair that has none, with
\* balance 0, and changes no wallet that exists.
C30_OneWalletPerPair ==
    /\ [](\A c \in Calls : \A w, x \in wallets \cup WalletsSeenBy(c) :
             ( /\ w.user_id = x.user_id /\ w.asset_type_id = x.asset_type_id
               /\ w \in wallets <=> x \in wallets )
             => w = x)
    /\ [][ \A c \in Calls :
             ( /\ pc[c] \in {"ensure1", "ensure2"}
               /\ pc'[c] \in {"ensure2", "lock1"} /\ pc'[c] # pc[c] )
             => /\ wallets' = wallets
                /\ txWallets[c] \subseteq txWallets'[c]
                /\ \A w \in txWallets'[c] \ txWallets[c] :
                      /\ w.balance = 0
                      /\ WalletRows(WalletsSeenBy(c), w.user_id, w.asset_type_id) = {}
                /\ \A w \in WalletsSeenBy(c) : w \in wallets' \cup txWallets'[c]
         ]_vars

\* C30 (case): a call has created the GOLD wallet of user 3 and committed,
\* and a later call on the same pair has passed its insert-if-absent steps
\* and written no wallet.
C30_SecondCallFindsWallet ==
    \E c, d \in Calls :
        /\ c # d
        /\ Returned(c) /\ result[c].transaction.id = c
        /\ args[c].userId = TEST_USER_3_ID /\ args[d].userId = TEST_USER_3_ID
        /\ args[c].assetCode = "GOLD" /\ args[d].assetCode = "GOLD"
        /\ pc[d] = "lock1" /\ txWallets[d] = {}
        /\ Cardinality(WalletRows(wallets, TEST_USER_3_ID, 1)) = 1

\* C31: once every transfer has ended, a getBalance that begins afterwards
\* returns the committed balance of the wallet; the cache keeps no value from
\* before a committed transfer.
C31_ReadAfterCommitIsCommitted ==
    (reader.pc = "returned" /\ reader.quiet)
       => reader.value = getBalance(wallets, reader.userId, reader.assetTypeId)

\* C32: an amount that is not a finite number never appears in a committed
\* wallet balance, Transaction amount or ledger entry (here: of a call of a
\* user other than the system).
C32_NonFiniteNeverStored ==
    /\ \A w \in wallets : w.user_id # SYSTEM_USER_ID => w.balance # NaN
    /\ \A t \in transactions : t.user_id # SYSTEM_USER_ID => t.amount # NaN
    /\ \A e \in ledger_entries : \A t \in transactions :
          (e.transaction_id = t.id /\ t.user_id # SYSTEM_USER_ID)
             => e.amount # NaN

\* C33: every amount of a committed Transaction row or ledger entry is
\* strictly positive at the scale of the store.
C33_StoredAmountsPositive ==
    /\ \A t \in transactions : t.amount > 0
    /\ \A e \in ledger_entries : e.amount > 0

C35_SelfTransferKeepsBalance ==
    \A c \in Calls :
       ( /\ pc[c] = "done"
         /\ \A d \in Calls \ {c} : pc[d] = "idle"
         /\ args[c].userId = SYSTEM_USER_ID
         /\ getAssetType(args[c].assetCode) # NoAsset
         /\ amountDecimal(c) = Cent )
       => getBalance(wallets, SYSTEM_USER_ID, assetTypeId(c))
             = getBalance(SeedWallets, SYSTEM_USER_ID, assetTypeId(c))

\* C36: for every completed operation the stored decrease of the source, the
\* stored increase of the destination, the stored Transaction amount and the
\* amounts of both ledger entries are one value (here: of a finite amount, by
\* a user other than the system).
C36_OneStoredValue ==
    [][ \A c \in Calls :
          ( /\ pc[c] = "commit" /\ pc'[c] = "done"
            /\ Finite(c) /\ args[c].userId # SYSTEM_USER_ID )
          => LET a == assetTypeId(c)
                 decrease == getBalance(wallets, fromUserId(c), a)
                                - getBalance(wallets', fromUserId(c), a)
                 increase == getBalance(wallets', toUserId(c), a)
                                - getBalance(wallets, toUserId(c), a)
                 stored == { t.amount : t \in { t \in transactions' : t.id = c } }
                              \cup { e.amount :
                                       e \in { e \in ledger_entries' : e.transaction_id = c } }
             IN stored \cup {decrease, increase} = {decrease}
      ]_vars

\* C37: a completed operation raises the version of its source wallet and of
\* its destination wallet by exactly 1, a call that fails or replays changes
\* no version, and no version ever decreases; a wallet the engine created has
\* version 1 + the number of its ledger entries.
C37_VersionCountsEntries ==
    [][ /\ \A c \in Calls :
              (pc'[c] = "done" /\ pc[c] # "done" /\ Finite(c))
              => LET a == assetTypeId(c)
                     touched == IF pc[c] = "commit"
                                THEN WalletRows(wallets, fromUserId(c), a)
                                        \cup WalletRows(wallets, toUserId(c), a)
                                ELSE {}
                 IN \A w \in wallets : \E v \in wallets' :
                       /\ v.id = w.id
                       /\ v.version = (IF w \in touched THEN w.version + 1 ELSE w.version)
        /\ \A w \in wallets : \A v \in wallets' : v.id = w.id => v.version >= w.version
        /\ \A v \in wallets' :
              (\A s \in SeedWallets : s.id # v.id)
              => v.version = 1 + Cardinality({ e \in ledger_entries' : e.wallet_id = v.id })
      ]_vars

\* C38: a call that has entered transfer with the idempotency key of a
\* committed COMPLETED Transaction of a call with other arguments (user, asset,
\* amount or kind) returns that Transaction as a success, and from its lock to
\* its return no wallet, Transaction or ledger row changes.
C38_OtherArgumentsReplay ==
    [][ \A d \in Calls : \A t \in transactions :
          ( /\ pc[d] \in {"advisory", "gate"}
            /\ pc'[d] # pc[d]
            /\ t.idempotency_key = idempotencyKey(d)
            /\ t.status = "COMPLETED"
            /\ t.id # d /\ args[t.id] # args[d] )
          => /\ wallets' = wallets
             /\ transactions' = transactions
             /\ ledger_entries' = ledger_entries
             /\ pc[d] = "gate" =>
                   /\ Returned(d)'
                   /\ result'[d].transaction = t
      ]_vars

\* A spend or bonus of one user has returned the committed TOP_UP of another
\* user, of another amount.
C38_ReturnedAnothersRecord ==
    \E c, d \in Calls :
        /\ c # d
        /\ Returned(c) /\ result[c].transaction.id = c
        /\ Returned(d) /\ result[d].transaction = result[c].transaction
        /\ result[d].transaction \in transactions
        /\ args[d].userId # result[d].transaction.user_id
        /\ transactionType(d) # result[d].transaction.transaction_type
        /\ amountDecimal(c) = result[c].transaction.amount
        /\ Finite(d) /\ amountDecimal(d) # result[d].transaction.amount

\* C39: within one window, and with redis answering every command, at most
\* max requests of one client are passed on.
C39_AtMostMaxPerWindow ==
    ( /\ limiter.elapsed = 0
      /\ \A q \in 1..MaxRequests : limiter.requests[q].pc # "failed open" )
    => Cardinality({ q \in 1..MaxRequests : limiter.requests[q].pc = "next" }) <= max

====
